---- MODULE Spec2Model ----
(***************************************************************************)
(* Record store backend: the SQLite tables of backend/db/db.go and the     *)
(* cart / admin handlers of backend/handlers (src/backend/handlers/auth.go)*)
(* as a state machine over the database content.                           *)
(*                                                                         *)
(* Spec      every handler runs from its first statement to its response   *)
(*           as one step (requests served one after the other).            *)
(* SpecConc  the cart handlers and DeleteRecord run concurrently and       *)
(*           interleave at the granularity of one SQL statement.           *)
(***************************************************************************)
EXTENDS Integers, Sequences, FiniteSets, TLC

\* ---- bounds of the model ------------------------------------------------
MaxRecords == 2     \* AddRecord is enabled while fewer ids have been handed out
MaxQty == 3         \* AddToCart is enabled while the stored quantity stays <= MaxQty
MaxEnsembles == 1   \* AddEnsemble is enabled while fewer ids have been handed out
MaxCartRows == 2    \* AddToCart inserts a new row while cart_items has fewer rows
MaxInFlight == 2    \* concurrent cart requests in SpecConc
MaxMusicians == 1   \* AddMusician is enabled while fewer ids have been handed out
MaxCatalogQty == 1  \* SpecCatalog: AddToCart is enabled while the stored quantity is smaller
MaxOpenTx == 1      \* a request that leaves its transaction open is served while
                    \* fewer transactions are open
MaxStock == 2       \* the largest stock a request of SpecSales names
MaxUsers == 2       \* Register is enabled while users has fewer rows

\* ---- value sets -----------------------------------------------------------
NULL == "NULL"
NullID == 0   \* an id column that holds NULL (AUTOINCREMENT ids start at 1)
Users == {1, 2}                       \* authenticated principals (JwtClaims.UserID)
RecordIdInputs == 0 .. MaxRecords     \* 0: an id the handlers reject as invalid
QuantityInputs == -1 .. (MaxQty - 1)  \* -1 and 0: the quantities the handlers treat specially
ValidRecordIds == 1 .. MaxRecords
ValidTrack == [name |-> "Intro", duration |-> 120]

\* HTTP statuses written by respondWithError; respondWithJSON never calls
\* WriteHeader, so every success is answered 200.
StatusOK == 200
StatusCreated == 201
StatusBadRequest == 400
StatusUnauthorized == 401
StatusForbidden == 403
StatusNotFound == 404
StatusConflict == 409
StatusInternalServerError == 500

VARIABLES
    users,          \* table users of the gorm connection of Server: rows
                    \* [email, password, role]; password is what Create stored
    foreignKeys,    \* whether the connection enforces FOREIGN KEY clauses
    records,        \* table records: rows [id, stock, sold_last_year, sold_current_year]
    recordSeq,      \* AUTOINCREMENT sequence of records
    ensembles,      \* table ensembles: rows [id, name]
    ensembleSeq,    \* AUTOINCREMENT sequence of ensembles
    tracks,         \* table tracks: rows [id, name, duration, musician_id, ensemble_id]
    trackSeq,       \* AUTOINCREMENT sequence of tracks
    record_tracks,  \* table record_tracks: rows [record_id, track_id]
    cart_items,     \* table cart_items: rows [user_id, record_id, quantity]
    musicians,      \* table musicians: rows [id, ensemble_id]
    musicianSeq,    \* AUTOINCREMENT sequence of musicians
    openTx,         \* transactions begun by a handler that returned without
                    \* Commit or Rollback
    inflight,       \* SpecConc: requests between two of their statements
    last,           \* the request answered by the step just taken, with its response
    addSum,         \* history (SpecSum): per (user, record), the sum of the quantities
                    \* of the successful AddToCart calls since the pair last had no row
    mixed,          \* history (SpecSum): the pairs with a row that an UpdateCart with
                    \* a quantity > 0 or a DeleteRecord touched since it was created
    zeroed,         \* history (SpecZero): the pairs whose row an UpdateCart with
                    \* quantity 0 deleted, with no successful AddToCart of the pair since
    target,         \* history (SpecConc): per (user, record), the quantity the pair had
                    \* when its current group of overlapping AddToCart requests
                    \* began, plus the quantities requested by the group so far
    clean,          \* history (SpecConc): the pairs whose current group had no failed
                    \* request and no RemoveFromCart or DeleteRecord in between
    overlapped,     \* history (SpecConc): the pairs whose current group had two
                    \* requests between their statements at the same time
    served          \* history (SpecCatalog): the request answered by the step just
                    \* taken: its credential, whether its input fails a validation
                    \* rule, whether its handler reached the storage, for a
                    \* GetRecords the number of queries it issued, for an
                    \* AddEnsemble the name it asked for, for an AddRecord of
                    \* SpecLinks its list of track ids, and for a Register or a
                    \* LoginCheck its e-mail address and password

dbvars == <<users, foreignKeys, records, recordSeq, ensembles, ensembleSeq, tracks, trackSeq,
            record_tracks, cart_items, musicians, musicianSeq>>
vars == <<users, foreignKeys, records, recordSeq, ensembles, ensembleSeq, tracks, trackSeq,
          record_tracks, cart_items, musicians, musicianSeq, openTx, inflight, last,
          addSum, mixed, zeroed, target, clean, overlapped, served>>
histvars == <<addSum, mixed, zeroed, target, clean, overlapped, served>>
concvars == <<target, clean, overlapped>>

\* ---- helpers over the tables ---------------------------------------------
RECURSIVE SetToSeq(_)
\* The elements of a finite set of integers as an ascending sequence.
SetToSeq(S) ==
    IF S = {} THEN <<>>
    ELSE LET m == CHOOSE x \in S : \A y \in S : x <= y
         IN  <<m>> \o SetToSeq(S \ {m})

Range(s) == {s[i] : i \in 1 .. Len(s)}

RecordIDs == {r.id : r \in records}
TrackIDs == {t.id : t \in tracks}

\* Rows of a cart table with the given primary key (user_id, record_id).
RowsOf(cart, u, r) == {c \in cart : c.user_id = u /\ c.record_id = r}
\* Rows of a cart table that belong to one user.
RowsOfUser(cart, u) == {c \in cart : c.user_id = u}
\* Stored quantity of (u, r), 0 when there is no row.
Qty(cart, u, r) ==
    IF RowsOf(cart, u, r) = {} THEN 0
    ELSE (CHOOSE c \in RowsOf(cart, u, r) : TRUE).quantity

\* ---- SQL statements of the cart handlers -----------------------------------
\* SELECT EXISTS(SELECT 1 FROM records WHERE id = ?)
RecordExists(recs, r) == \E x \in recs : x.id = r

\* INSERT INTO cart_items ... ON CONFLICT (user_id, record_id)
\*   DO UPDATE SET quantity = quantity + excluded.quantity
\* The statement fails on a FOREIGN KEY violation when the keys are enforced
\* and the record is gone.
UpsertFails(fk, recs, r) == fk /\ ~RecordExists(recs, r)

\* Mutant: ON CONFLICT ... DO UPDATE SET quantity = excluded.quantity
UpsertCartItemOverwrite(cart, u, r, q) ==
    {c \in cart : ~(c.user_id = u /\ c.record_id = r)}
        \cup {[user_id |-> u, record_id |-> r, quantity |-> q]}

\* Mutant: ON CONFLICT (user_id, record_id) DO NOTHING
UpsertCartItemIgnore(cart, u, r, q) ==
    IF RowsOf(cart, u, r) = {}
    THEN cart \cup {[user_id |-> u, record_id |-> r, quantity |-> q]}
    ELSE cart

UpsertCartItem(cart, u, r, q) ==
    IF RowsOf(cart, u, r) = {}
    THEN cart \cup {[user_id |-> u, record_id |-> r, quantity |-> q]}
    ELSE {IF c.user_id = u /\ c.record_id = r
          THEN [c EXCEPT !.quantity = c.quantity + q]
          ELSE c : c \in cart}

\* Mutant: DELETE FROM cart_items WHERE record_id = ?
DeleteCartItemAnyUser(cart, u, r) == {c \in cart : c.record_id # r}

\* DELETE FROM cart_items WHERE user_id = ? AND record_id = ?
DeleteCartItem(cart, u, r) == {c \in cart : ~(c.user_id = u /\ c.record_id = r)}

\* Mutant: UPDATE cart_items SET quantity = quantity + ? WHERE ...
UpdateCartItemAccumulate(cart, u, r, q) ==
    {IF c.user_id = u /\ c.record_id = r
     THEN [c EXCEPT !.quantity = c.quantity + q] ELSE c : c \in cart}

\* Mutant: UPDATE cart_items SET quantity = MAX(quantity, ?) WHERE ...
UpdateCartItemIfGreater(cart, u, r, q) ==
    {IF c.user_id = u /\ c.record_id = r /\ c.quantity < q
     THEN [c EXCEPT !.quantity = q] ELSE c : c \in cart}

\* UPDATE cart_items SET quantity = ? WHERE user_id = ? AND record_id = ?
UpdateCartItem(cart, u, r, q) ==
    {IF c.user_id = u /\ c.record_id = r THEN [c EXCEPT !.quantity = q] ELSE c : c \in cart}

\* result.RowsAffected() of the two statements above
RowsAffected(cart, u, r) == Cardinality(RowsOf(cart, u, r))

\* ---- responses -------------------------------------------------------------
Response(op, u, r, q, status, body) ==
    [op |-> op, user |-> u, record |-> r, quantity |-> q, status |-> status, body |-> body]

NoResponse == Response("none", 0, 0, 0, 0, <<>>)

\* The request of a step, as the history variable served keeps it.
Request(cred, invalid, accessed) ==
    [cred |-> cred, invalid |-> invalid, accessed |-> accessed, queries |-> 0,
     name |-> "", ids |-> <<>>, email |-> "", password |-> <<>>]

NoRequest == Request("none", FALSE, FALSE)

Pairs == Users \X (1 .. MaxRecords)

\* SpecConc: the handler goroutines that are between two of their statements.
Slots == 1 .. MaxInFlight
Idle == [op |-> "idle", user |-> 0, record |-> 0, quantity |-> 0]

Init ==
    /\ users = {}
    /\ foreignKeys \in BOOLEAN
    /\ records = {}
    /\ recordSeq = 0
    /\ ensembles = {}
    /\ ensembleSeq = 0
    /\ tracks = {}
    /\ trackSeq = 0
    /\ record_tracks = {}
    /\ cart_items = {}
    /\ musicians = {}
    /\ musicianSeq = 0
    /\ openTx = 0
    /\ inflight = [s \in Slots |-> Idle]
    /\ last = NoResponse
    /\ addSum = [p \in Pairs |-> 0]
    /\ mixed = {}
    /\ zeroed = {}
    /\ target = [p \in Pairs |-> 0]
    /\ clean = {}
    /\ overlapped = {}
    /\ served = NoRequest


\* ---- the write lock ----------------------------------------------------------
\* A transaction that executed an INSERT holds the write lock of the database
\* file until it is committed or rolled back, also when the INSERT failed. While
\* a handler has left such a transaction open, every INSERT, UPDATE and DELETE of
\* another connection fails with "database is locked"; reads are served.
WriteLocked == openTx > 0

\* The status of a request whose writing statement was reached with status st
\* to come: 500 when the statement meets the lock.
WriteStatus(st) == IF WriteLocked THEN StatusInternalServerError ELSE st

\* ---- AddToCartHandler --------------------------------------------------------
\* Mutant: the quantity check accepts 0.
AddToCartStatusZeroAllowed(fk, recs, r, q) ==
    IF r <= 0 \/ q < 0 THEN StatusBadRequest
    ELSE IF ~RecordExists(recs, r) THEN StatusNotFound
    ELSE IF UpsertFails(fk, recs, r) THEN StatusInternalServerError
    ELSE StatusOK

\* Mutant: the existence check of the record is left out.
AddToCartStatusNoExistenceCheck(fk, recs, r, q) ==
    IF r <= 0 \/ q <= 0 THEN StatusBadRequest
    ELSE IF UpsertFails(fk, recs, r) THEN StatusInternalServerError
    ELSE StatusOK

\* Status the handler answers with, from the state it runs in.
AddToCartStatus(fk, recs, r, q) ==
    IF r <= 0 \/ q <= 0 THEN StatusBadRequest
    ELSE IF ~RecordExists(recs, r) THEN StatusNotFound
    ELSE IF UpsertFails(fk, recs, r) THEN StatusInternalServerError
    ELSE StatusOK

AddToCartHandler(u, r, q) ==
    /\ Qty(cart_items, u, r) + q <= MaxQty
    /\ RowsOf(cart_items, u, r) = {} => Cardinality(cart_items) < MaxCartRows
    /\ LET reached == AddToCartStatus(foreignKeys, records, r, q)
           status == IF reached = StatusOK THEN WriteStatus(reached) ELSE reached
       IN  /\ cart_items' = IF status = StatusOK
                            THEN UpsertCartItem(cart_items, u, r, q)
                            ELSE cart_items
           /\ last' = Response("AddToCart", u, r, q, status, <<>>)
    /\ UNCHANGED <<musicians, musicianSeq, openTx, users, foreignKeys, records, recordSeq, ensembles, ensembleSeq, tracks,
                   trackSeq, record_tracks, inflight>>

\* ---- UpdateCartHandler ------------------------------------------------------
\* SELECT stock FROM records WHERE id = ? answers sql.ErrNoRows when the record is gone.
UpdateCartStatus(recs, cart, u, r, q) ==
    IF r <= 0 THEN StatusBadRequest
    ELSE IF q < 0 THEN StatusBadRequest
    ELSE IF q = 0
         THEN IF RowsAffected(cart, u, r) = 0 THEN StatusNotFound ELSE StatusOK
    ELSE IF ~RecordExists(recs, r) THEN StatusNotFound
    ELSE IF RowsAffected(cart, u, r) = 0 THEN StatusNotFound
    ELSE StatusOK

\* Mutant: quantity 0 is written with the UPDATE like any other quantity.
UpdateCartEffectZeroStored(recs, cart, u, r, q) ==
    IF r <= 0 \/ q < 0 THEN cart
    ELSE IF ~RecordExists(recs, r) THEN cart
    ELSE UpdateCartItem(cart, u, r, q)

\* Mutant: a missing row is inserted by the update (an upsert).
UpdateCartEffectCreates(recs, cart, u, r, q) ==
    IF r <= 0 \/ q < 0 THEN cart
    ELSE IF q = 0 THEN DeleteCartItem(cart, u, r)
    ELSE IF ~RecordExists(recs, r) THEN cart
    ELSE IF RowsOf(cart, u, r) = {}
         THEN cart \cup {[user_id |-> u, record_id |-> r, quantity |-> q]}
    ELSE UpdateCartItem(cart, u, r, q)

\* cart_items after the handler.
UpdateCartEffect(recs, cart, u, r, q) ==
    IF r <= 0 \/ q < 0 THEN cart
    ELSE IF q = 0 THEN DeleteCartItem(cart, u, r)
    ELSE IF ~RecordExists(recs, r) THEN cart
    ELSE UpdateCartItem(cart, u, r, q)

\* The handler reaches its DELETE (q = 0) or, after the stock was read, its UPDATE.
UpdateCartWrites(recs, r, q) == r > 0 /\ q >= 0 /\ (q = 0 \/ RecordExists(recs, r))

UpdateCartHandler(u, r, q) ==
    /\ cart_items' = IF WriteLocked THEN cart_items
                     ELSE UpdateCartEffect(records, cart_items, u, r, q)
    /\ last' = Response("UpdateCart", u, r, q,
                        IF UpdateCartWrites(records, r, q)
                        THEN WriteStatus(UpdateCartStatus(records, cart_items, u, r, q))
                        ELSE UpdateCartStatus(records, cart_items, u, r, q), <<>>)
    /\ UNCHANGED <<musicians, musicianSeq, openTx, users, foreignKeys, records, recordSeq, ensembles, ensembleSeq, tracks,
                   trackSeq, record_tracks, inflight>>

\* ---- RemoveFromCartHandler --------------------------------------------------
RemoveFromCartStatus(cart, u, r) ==
    IF r <= 0 THEN StatusBadRequest
    ELSE IF RowsAffected(cart, u, r) = 0 THEN StatusNotFound
    ELSE StatusOK

\* Mutant: a row with a quantity above 1 is decremented instead of deleted.
RemoveFromCartEffectDecrement(cart, u, r) ==
    IF r <= 0 THEN cart
    ELSE IF Qty(cart, u, r) > 1 THEN UpdateCartItem(cart, u, r, Qty(cart, u, r) - 1)
    ELSE DeleteCartItem(cart, u, r)

\* cart_items after the handler.
RemoveFromCartEffect(cart, u, r) ==
    IF r <= 0 THEN cart ELSE DeleteCartItem(cart, u, r)

RemoveFromCartHandler(u, r) ==
    /\ cart_items' = IF WriteLocked THEN cart_items
                     ELSE RemoveFromCartEffect(cart_items, u, r)
    /\ last' = Response("RemoveFromCart", u, r, 0,
                        IF r > 0 THEN WriteStatus(RemoveFromCartStatus(cart_items, u, r))
                        ELSE RemoveFromCartStatus(cart_items, u, r), <<>>)
    /\ UNCHANGED <<musicians, musicianSeq, openTx, users, foreignKeys, records, recordSeq, ensembles, ensembleSeq, tracks,
                   trackSeq, record_tracks, inflight>>

\* ---- GetCartHandler ---------------------------------------------------------
\* The text of the tracks-with-owners query is one raw string literal that runs to
\* the closing back quote, so the Go expression meant to append the placeholders
\*   " + strings.Repeat(",?", len(cartTrackIDs)-1) + "
\* is part of the SQL text; SQLite rejects it with a syntax error and db.Query
\* returns that error whatever the arguments are.
TrackQueryPrepares == FALSE

\* SELECT ... FROM tracks t LEFT JOIN ... WHERE t.id IN (...)
QueryTracks(trks, ids) ==
    IF TrackQueryPrepares
    THEN [ok |-> TRUE, rows |-> {t \in trks : t.id \in ids}]
    ELSE [ok |-> FALSE, rows |-> {}]

\* SELECT record_id, track_id FROM record_tracks WHERE record_id IN (...)
QueryTrackLinks(links, rids) == {l \in links : l.record_id \in rids}

\* Step 5 of the handler for one cart row: the row is kept in the answer; its
\* Record stays nil when the record was not fetched.
CartItemView(c, fetched, links, trackRows) ==
    [userId |-> c.user_id, recordId |-> c.record_id, quantity |-> c.quantity,
     record |-> IF c.record_id \in fetched
                THEN [id |-> c.record_id,
                      tracks |-> SetToSeq({l.track_id : l \in {x \in links :
                                      x.record_id = c.record_id /\
                                      x.track_id \in {t.id : t \in trackRows}}})]
                ELSE NULL]

\* The whole handler as a function of the tables: status and body (the items in
\* the order of the primary key of cart_items).
GetCartResult(recs, links, trks, cart, u) ==
    LET rows == RowsOfUser(cart, u)
        rids == {c.record_id : c \in rows}
        order == SetToSeq(rids)
        rowOf(r) == CHOOSE c \in rows : c.record_id = r
        fetched == {r \in rids : RecordExists(recs, r)}
        cartLinks == QueryTrackLinks(links, fetched)
        cartTrackIDs == {l.track_id : l \in cartLinks}
        trackQuery == QueryTracks(trks, cartTrackIDs)
        view(rs, ls, ts) == [i \in 1 .. Len(order) |-> CartItemView(rowOf(order[i]), rs, ls, ts)]
    IN  IF rows = {} THEN [status |-> StatusOK, body |-> <<>>]
        ELSE IF fetched = {} THEN [status |-> StatusOK, body |-> view({}, {}, {})]
        ELSE IF cartTrackIDs # {} /\ ~trackQuery.ok
             THEN [status |-> StatusInternalServerError, body |-> <<>>]
        ELSE [status |-> StatusOK, body |-> view(fetched, cartLinks, trackQuery.rows)]

GetCartHandler(u) ==
    /\ LET res == GetCartResult(records, record_tracks, tracks, cart_items, u)
       IN  last' = Response("GetCart", u, 0, 0, res.status, res.body)
    /\ UNCHANGED <<dbvars, openTx, inflight>>

\* ---- admin creates: AddMusicianHandler, AddEnsembleHandler, AddRecordHandler ---
\* Each of them begins a transaction, runs its statements on it and commits. A
\* request can meet a failure of the storage engine at one of its statements
\* (fail: "none", or the statement that fails). The deferred function of a
\* handler rolls the transaction back when the handler's variable err is not
\* nil at the return. A transaction that is neither committed nor rolled back
\* stays open (openTx); nothing it wrote is visible to any other request, and
\* it keeps the write lock of the database file (WriteLocked above).

\* trackReq.Name == "" || trackReq.Duration <= 0
InvalidTrack(t) == t.name = "" \/ t.duration <= 0

\* The tracks of a request that the loop over req.Tracks does not skip.
KeptTracks(reqTracks) == SelectSeq(reqTracks, LAMBDA t : ~InvalidTrack(t))

RECURSIVE InsertTracks(_, _, _, _)
\* The loop over req.Tracks of AddEnsembleHandler: a track with an empty name or
\* a duration <= 0 is skipped, every other one is inserted with the next id.
InsertTracks(trks, seq, reqTracks, ensembleID) ==
    IF reqTracks = <<>> THEN [tracks |-> trks, seq |-> seq]
    ELSE LET t == Head(reqTracks)
         IN  IF t.name = "" \/ t.duration <= 0
             THEN InsertTracks(trks, seq, Tail(reqTracks), ensembleID)
             ELSE InsertTracks(trks \cup {[id |-> seq + 1, name |-> t.name,
                                           duration |-> t.duration,
                                           musician_id |-> NullID,
                                           ensemble_id |-> ensembleID]},
                               seq + 1, Tail(reqTracks), ensembleID)

RECURSIVE InsertMusicianTracks(_, _, _, _)
\* The same loop of AddMusicianHandler: VALUES (?, ?, musicianID, NULL).
InsertMusicianTracks(trks, seq, reqTracks, musicianID) ==
    IF reqTracks = <<>> THEN [tracks |-> trks, seq |-> seq]
    ELSE LET t == Head(reqTracks)
         IN  IF t.name = "" \/ t.duration <= 0
             THEN InsertMusicianTracks(trks, seq, Tail(reqTracks), musicianID)
             ELSE InsertMusicianTracks(trks \cup {[id |-> seq + 1, name |-> t.name,
                                                   duration |-> t.duration,
                                                   musician_id |-> musicianID,
                                                   ensemble_id |-> NullID]},
                                       seq + 1, Tail(reqTracks), musicianID)

\* ---- AddMusicianHandler -----------------------------------------------------
\* How the request ends. The INSERT INTO musicians fails on its FOREIGN KEY
\* when the keys are enforced and req.EnsembleID names no ensemble. Every
\* failure is assigned to the handler's err, so the deferred function rolls back.
AddMusicianOutcome(fk, ens, first, lastName, ensembleID, reqTracks, fail) ==
    IF first = "" \/ lastName = "" THEN "invalid"
    ELSE IF fail = "begin" THEN "notbegun"
    ELSE IF fail = "insert" THEN "rolledback"
    ELSE IF fk /\ ensembleID # NullID /\ ~(\E e \in ens : e.id = ensembleID) THEN "rolledback"
    ELSE IF fail = "track" /\ KeptTracks(reqTracks) # <<>> THEN "rolledback"
    ELSE IF fail = "commit" THEN "rolledback"
    ELSE "committed"

\* The outcome of a create that got as far as its first INSERT: the statement
\* fails on the write lock, the error is assigned to the handler's err and the
\* deferred function rolls back.
LockedOutcome(outcome) ==
    IF WriteLocked /\ outcome \notin {"invalid", "notbegun"} THEN "rolledback" ELSE outcome

\* The status written for an outcome of an admin create.
CreateStatus(outcome) ==
    CASE outcome = "invalid" -> StatusBadRequest
      [] outcome = "conflict" -> StatusConflict
      [] outcome = "committed" -> StatusOK
      [] OTHER -> StatusInternalServerError

AddMusicianHandler(first, lastName, ensembleID, reqTracks, fail) ==
    /\ musicianSeq < MaxMusicians
    /\ LET outcome == LockedOutcome(AddMusicianOutcome(foreignKeys, ensembles, first,
                                         lastName, ensembleID, reqTracks, fail))
           id == musicianSeq + 1
           ins == InsertMusicianTracks(tracks, trackSeq, reqTracks, id)
       IN  /\ IF outcome = "committed"
              THEN /\ musicians' = musicians \cup
                          {[id |-> id, first_name |-> first, last_name |-> lastName,
                            ensemble_id |-> ensembleID]}
                   /\ musicianSeq' = id
                   /\ tracks' = ins.tracks
                   /\ trackSeq' = ins.seq
              ELSE UNCHANGED <<musicians, musicianSeq, tracks, trackSeq>>
           /\ last' = Response("AddMusician", 0, IF outcome = "committed" THEN id ELSE 0,
                               0, CreateStatus(outcome), <<>>)
    /\ UNCHANGED <<openTx, users, foreignKeys, records, recordSeq, ensembles, ensembleSeq,
                   record_tracks, cart_items, inflight>>

\* ---- AddEnsembleHandler -----------------------------------------------------
\* How the request ends. On "UNIQUE constraint failed" (ensembles.name) the
\* handler sets err = nil before it returns, so the deferred function neither
\* rolls back nor was Commit called: the transaction stays open ("conflict").
AddEnsembleOutcome(ens, name, reqTracks, fail) ==
    IF name = "" THEN "invalid"
    ELSE IF fail = "begin" THEN "notbegun"
    ELSE IF \E e \in ens : e.name = name THEN "conflict"
    ELSE IF fail = "insert" THEN "rolledback"
    ELSE IF fail = "track" /\ KeptTracks(reqTracks) # <<>> THEN "rolledback"
    ELSE IF fail = "commit" THEN "rolledback"
    ELSE "committed"

AddEnsembleHandler(name, reqTracks, fail) ==
    /\ LET outcome == LockedOutcome(AddEnsembleOutcome(ensembles, name, reqTracks, fail))
           id == ensembleSeq + 1
           ins == InsertTracks(tracks, trackSeq, reqTracks, id)
       IN  /\ outcome = "committed" => ensembleSeq < MaxEnsembles
           /\ outcome = "conflict" => openTx < MaxOpenTx
           /\ IF outcome = "committed"
              THEN /\ ensembles' = ensembles \cup {[id |-> id, name |-> name]}
                   /\ ensembleSeq' = id
                   /\ tracks' = ins.tracks
                   /\ trackSeq' = ins.seq
              ELSE UNCHANGED <<ensembles, ensembleSeq, tracks, trackSeq>>
           /\ openTx' = IF outcome = "conflict" THEN openTx + 1 ELSE openTx
           /\ last' = Response("AddEnsemble", 0, IF outcome = "committed" THEN id ELSE 0,
                               0, CreateStatus(outcome), <<>>)
    /\ UNCHANGED <<musicians, musicianSeq, users, foreignKeys, records, recordSeq, record_tracks,
                   cart_items, inflight>>

\* ---- AddRecordHandler -------------------------------------------------------
\* The loop without its SELECT EXISTS: every id of the request is linked.
LinkTracksUnchecked(links, trks, recordID, trackIDs) ==
    links \cup {[record_id |-> recordID, track_id |-> trackIDs[i]] : i \in DOMAIN trackIDs}

RECURSIVE LinkTracks(_, _, _, _)
\* The loop over req.TrackIDs: an id without a row in tracks is skipped, and so
\* is an id already linked to the record (UNIQUE constraint failed).
LinkTracks(links, trks, recordID, trackIDs) ==
    IF trackIDs = <<>> THEN links
    ELSE LET t == Head(trackIDs)
             row == [record_id |-> recordID, track_id |-> t]
         IN  IF ~(\E x \in trks : x.id = t) \/ row \in links
             THEN LinkTracks(links, trks, recordID, Tail(trackIDs))
             ELSE LinkTracks(links \cup {row}, trks, recordID, Tail(trackIDs))

\* The ids of a request that the loop hands to stmt.Exec.
LinkedIDs(trks, trackIDs) == SelectSeq(trackIDs, LAMBDA t : \E x \in trks : x.id = t)

\* How the request ends. Inside "if len(req.TrackIDs) > 0" the short declaration
\* stmt, err := tx.Prepare(...) declares a new err, so a failure of Prepare or
\* of stmt.Exec is assigned to that inner variable: the deferred function sees
\* the outer err, which is nil, and does not roll back ("open").
AddRecordOutcome(trks, title, stock, trackIDs, fail) ==
    IF title = "" \/ stock < 0 THEN "invalid"
    ELSE IF fail = "begin" THEN "notbegun"
    ELSE IF fail = "insert" THEN "rolledback"
    ELSE IF fail = "prepare" /\ trackIDs # <<>> THEN "open"
    ELSE IF fail = "link" /\ LinkedIDs(trks, trackIDs) # <<>> THEN "open"
    ELSE IF fail = "commit" THEN "rolledback"
    ELSE "committed"

AddRecordHandler(title, stock, trackIDs, fail) ==
    /\ LET outcome == LockedOutcome(AddRecordOutcome(tracks, title, stock, trackIDs, fail))
           id == recordSeq + 1
       IN  /\ outcome = "committed" => recordSeq < MaxRecords
           /\ outcome = "open" => openTx < MaxOpenTx
           /\ IF outcome = "committed"
              THEN /\ records' = records \cup {[id |-> id, stock |-> stock,
                                                sold_last_year |-> 0,
                                                sold_current_year |-> 0]}
                   /\ recordSeq' = id
                   /\ record_tracks' = LinkTracks(record_tracks, tracks, id, trackIDs)
              ELSE UNCHANGED <<records, recordSeq, record_tracks>>
           /\ openTx' = IF outcome = "open" THEN openTx + 1 ELSE openTx
           /\ last' = Response("AddRecord", 0, IF outcome = "committed" THEN id ELSE 0,
                               0, CreateStatus(outcome), <<>>)
    /\ UNCHANGED <<musicians, musicianSeq, users, foreignKeys, ensembles, ensembleSeq, tracks,
                   trackSeq, cart_items, inflight>>

\* ---- UpdateRecordHandler ----------------------------------------------------
\* Mutant: the UPDATE also writes the sales counter of the current year.
UpdateRecordStatementWithSales(recs, r, stock) ==
    {IF x.id = r THEN [x EXCEPT !.stock = stock, !.sold_current_year = stock] ELSE x :
        x \in recs}

\* UPDATE records SET title = ?, label = ?, wholesale_address = ?,
\* wholesale_price = ?, retail_price = ?, release_date = ?, stock = ? WHERE id = ?:
\* of the columns the model keeps, stock.
UpdateRecordStatement(recs, r, stock) ==
    {IF x.id = r THEN [x EXCEPT !.stock = stock] ELSE x : x \in recs}

UpdateRecordStatus(recs, r, title, stock) ==
    IF r <= 0 \/ title = "" \/ stock < 0 THEN StatusBadRequest
    ELSE IF WriteLocked THEN StatusInternalServerError
    ELSE IF ~RecordExists(recs, r) THEN StatusNotFound
    ELSE StatusOK

UpdateRecordHandler(r, title, stock) ==
    /\ LET status == UpdateRecordStatus(records, r, title, stock)
       IN  /\ records' = IF status = StatusOK
                         THEN UpdateRecordStatement(records, r, stock)
                         ELSE records
           /\ last' = Response("UpdateRecord", 0, r, 0, status, <<>>)
    /\ UNCHANGED <<musicians, musicianSeq, openTx, users, foreignKeys, recordSeq, ensembles,
                   ensembleSeq, tracks, trackSeq, record_tracks, cart_items, inflight>>

\* ---- DeleteRecordHandler ----------------------------------------------------
\* DELETE FROM records WHERE id = ?; the ON DELETE CASCADE clauses of
\* record_tracks and cart_items act only when foreign keys are enforced.
DeleteRecordHandler(r) ==
    /\ IF r <= 0
       THEN /\ last' = Response("DeleteRecord", 0, r, 0, StatusBadRequest, <<>>)
            /\ UNCHANGED <<records, record_tracks, cart_items>>
       ELSE IF WriteLocked
       THEN /\ last' = Response("DeleteRecord", 0, r, 0, StatusInternalServerError, <<>>)
            /\ UNCHANGED <<records, record_tracks, cart_items>>
       ELSE IF ~RecordExists(records, r)
       THEN /\ last' = Response("DeleteRecord", 0, r, 0, StatusNotFound, <<>>)
            /\ UNCHANGED <<records, record_tracks, cart_items>>
       ELSE /\ records' = {x \in records : x.id # r}
            /\ record_tracks' = IF foreignKeys
                                THEN {l \in record_tracks : l.record_id # r}
                                ELSE record_tracks
            /\ cart_items' = IF foreignKeys
                             THEN {c \in cart_items : c.record_id # r}
                             ELSE cart_items
            /\ last' = Response("DeleteRecord", 0, r, 0, StatusOK, <<>>)
    /\ UNCHANGED <<musicians, musicianSeq, openTx, users, foreignKeys, recordSeq, ensembles, ensembleSeq, tracks, trackSeq,
                   inflight>>

\* ---- the aggregations: tracks with owners, records with tracks -------------------
\* strings.TrimSpace(musicianFirstName.String + " " + musicianLastName.String)
DisplayName(first, lastName) ==
    IF first = "" THEN lastName
    ELSE IF lastName = "" THEN first
    ELSE first \o " " \o lastName

\* Mutant: the track of a musician also carries the ensemble the musician is a
\* member of.
TrackViewWithMembership(t, mus, ens) ==
    [id |-> t.id, name |-> t.name, duration |-> t.duration,
     musicianId |-> t.musician_id,
     ensembleId |->
         IF t.musician_id # NullID /\ \E m \in mus : m.id = t.musician_id
         THEN (CHOOSE x \in mus : x.id = t.musician_id).ensemble_id
         ELSE t.ensemble_id,
     musicianName |-> "",
     ensembleName |-> ""]

\* Mutant: an owner without a row leaves the name empty.
TrackViewNoFallback(t, mus, ens) ==
    [id |-> t.id, name |-> t.name, duration |-> t.duration,
     musicianId |-> t.musician_id,
     ensembleId |-> t.ensemble_id,
     musicianName |->
         IF t.musician_id # NullID /\ \E m \in mus : m.id = t.musician_id
         THEN LET m == CHOOSE x \in mus : x.id = t.musician_id
              IN  DisplayName(m.first_name, m.last_name)
         ELSE "",
     ensembleName |->
         IF t.ensemble_id # NullID /\ \E e \in ens : e.id = t.ensemble_id
         THEN (CHOOSE x \in ens : x.id = t.ensemble_id).name
         ELSE ""]

\* One row of "tracks t LEFT JOIN musicians m ... LEFT JOIN ensembles e ..." as
\* the scan loop turns it into a models.Track: MusicianID is set when
\* musician_id is not NULL, EnsembleID when ensemble_id is not NULL; the name of
\* an owner without a row is the fallback text.
TrackView(t, mus, ens) ==
    [id |-> t.id, name |-> t.name, duration |-> t.duration,
     musicianId |-> t.musician_id,
     ensembleId |-> t.ensemble_id,
     musicianName |->
         IF t.musician_id = NullID THEN ""
         ELSE IF \E m \in mus : m.id = t.musician_id
         THEN LET m == CHOOSE x \in mus : x.id = t.musician_id
              IN  DisplayName(m.first_name, m.last_name)
         ELSE "Unknown Musician",
     ensembleName |->
         IF t.ensemble_id = NullID THEN ""
         ELSE IF \E e \in ens : e.id = t.ensemble_id
         THEN (CHOOSE x \in ens : x.id = t.ensemble_id).name
         ELSE "Unknown Ensemble"]

\* A record of a listing with its track list.
RecordView(r, trackList) ==
    [id |-> r.id, soldCurrentYear |-> r.sold_current_year, tracks |-> trackList]

RECURSIVE RowidOrder(_)
\* The rows of records as a scan of the table returns them: by ascending id.
RowidOrder(recs) ==
    IF recs = {} THEN <<>>
    ELSE LET m == CHOOSE x \in recs : \A y \in recs : x.id <= y.id
         IN  <<m>> \o RowidOrder(recs \ {m})

RECURSIVE BestSellerOrder(_)
\* ... FROM records ORDER BY sold_current_year DESC; rows with equal counters
\* leave the sorter in the order of the scan.
BestSellerOrder(recs) ==
    IF recs = {} THEN <<>>
    ELSE LET m == CHOOSE x \in recs : \A y \in recs :
                      \/ x.sold_current_year > y.sold_current_year
                      \/ x.sold_current_year = y.sold_current_year /\ x.id <= y.id
         IN  <<m>> \o BestSellerOrder(recs \ {m})

\* Steps 2 to 4 of GetRecordsHandler, repeated in the two reports: the links of
\* the fetched records, the tracks of those links, and the assembly. The tracks
\* query is not issued when no link was found.
AttachTracks(recSeq, links, trks, mus, ens) ==
    LET rids == {recSeq[i].id : i \in DOMAIN recSeq}
        recLinks == QueryTrackLinks(links, rids)
        trackIDs == {l.track_id : l \in recLinks}
        trackQuery == QueryTracks(trks, trackIDs)
        tracksOf(r) ==
            LET ids == SetToSeq({l.track_id : l \in {x \in recLinks :
                           x.record_id = r.id /\ \E t \in trackQuery.rows : t.id = x.track_id}})
            IN  [i \in DOMAIN ids |->
                    TrackView(CHOOSE t \in trackQuery.rows : t.id = ids[i], mus, ens)]
    IN  IF recSeq = <<>> THEN [status |-> StatusOK, body |-> <<>>]
        ELSE IF trackIDs = {}
        THEN [status |-> StatusOK,
              body |-> [i \in DOMAIN recSeq |-> RecordView(recSeq[i], <<>>)]]
        ELSE IF ~trackQuery.ok THEN [status |-> StatusInternalServerError, body |-> <<>>]
        ELSE [status |-> StatusOK,
              body |-> [i \in DOMAIN recSeq |-> RecordView(recSeq[i], tracksOf(recSeq[i]))]]

\* ---- GetRecordsHandler ------------------------------------------------------
GetRecordsResult(recs, links, trks, mus, ens) ==
    AttachTracks(RowidOrder(recs), links, trks, mus, ens)

GetRecordsHandler ==
    /\ LET res == GetRecordsResult(records, record_tracks, tracks, musicians, ensembles)
       IN  last' = Response("GetRecords", 0, 0, 0, res.status, res.body)
    /\ UNCHANGED <<dbvars, openTx, inflight>>

\* Mutant: the links and the tracks are fetched record by record.
GetRecordsQueriesPerRecord(recs, links) ==
    1 + Cardinality(recs) + Cardinality(QueryTrackLinks(links, {r.id : r \in recs}))

\* The db.Query calls of one GetRecordsHandler request: the records; when there
\* is a record, the links of all of them; when there is a link, the tracks of
\* all the links (the call is made, whatever it answers).
GetRecordsQueries(recs, links) ==
    IF recs = {} THEN 1
    ELSE IF QueryTrackLinks(links, {r.id : r \in recs}) = {} THEN 2
    ELSE 3

\* ---- GetAllTracksHandler ----------------------------------------------------
GetAllTracksResult(trks, mus, ens) ==
    LET ids == SetToSeq({t.id : t \in trks})
    IN  [i \in DOMAIN ids |-> TrackView(CHOOSE t \in trks : t.id = ids[i], mus, ens)]

GetAllTracksHandler ==
    /\ last' = Response("GetAllTracks", 0, 0, 0, StatusOK,
                        GetAllTracksResult(tracks, musicians, ensembles))
    /\ UNCHANGED <<dbvars, openTx, inflight>>

\* ---- GetBestSellersHandler --------------------------------------------------
GetBestSellersResult(recs, links, trks, mus, ens) ==
    AttachTracks(BestSellerOrder(recs), links, trks, mus, ens)

GetBestSellersHandler ==
    /\ LET res == GetBestSellersResult(records, record_tracks, tracks, musicians, ensembles)
       IN  last' = Response("GetBestSellers", 0, 0, 0, res.status, res.body)
    /\ UNCHANGED <<dbvars, openTx, inflight>>

\* ---- GetRecordsByEnsembleHandler --------------------------------------------
GetRecordsByEnsembleResult(recs, links, trks, mus, ens, e) ==
    LET trackIDsForEnsemble == {t.id : t \in {x \in trks : x.ensemble_id = e}}
        recordIDsWithEnsembleTracks ==
            {l.record_id : l \in {x \in links : x.track_id \in trackIDsForEnsemble}}
        fetched == {r \in recs : r.id \in recordIDsWithEnsembleTracks}
    IN  IF e <= 0 THEN [status |-> StatusBadRequest, body |-> <<>>]
        ELSE IF ~(\E x \in ens : x.id = e) THEN [status |-> StatusNotFound, body |-> <<>>]
        ELSE IF trackIDsForEnsemble = {} THEN [status |-> StatusOK, body |-> <<>>]
        ELSE IF recordIDsWithEnsembleTracks = {} THEN [status |-> StatusOK, body |-> <<>>]
        ELSE AttachTracks(RowidOrder(fetched), links, trks, mus, ens)

GetRecordsByEnsembleHandler(e) ==
    /\ LET res == GetRecordsByEnsembleResult(records, record_tracks, tracks, musicians,
                                             ensembles, e)
       IN  last' = Response("GetRecordsByEnsemble", 0, e, 0, res.status, res.body)
    /\ UNCHANGED <<dbvars, openTx, inflight>>

\* ---- DELETE FROM musicians WHERE id = ? -----------------------------------------
\* No handler issues this statement; it reaches the database from outside the
\* server. tracks.musician_id REFERENCES musicians(id) ON DELETE CASCADE and
\* record_tracks.track_id REFERENCES tracks(id) ON DELETE CASCADE act only when
\* foreign keys are enforced.
DeleteMusicianStatement(m) ==
    /\ \E x \in musicians : x.id = m
    /\ musicians' = {x \in musicians : x.id # m}
    /\ tracks' = IF foreignKeys THEN {t \in tracks : t.musician_id # m} ELSE tracks
    /\ record_tracks' =
           IF foreignKeys
           THEN {l \in record_tracks :
                    ~(\E t \in tracks : t.id = l.track_id /\ t.musician_id = m)}
           ELSE record_tracks
    /\ last' = Response("DeleteMusician", 0, m, 0, 0, <<>>)
    /\ UNCHANGED <<musicianSeq, openTx, users, foreignKeys, records, recordSeq, ensembles,
                   ensembleSeq, trackSeq, cart_items, inflight>>

\* ---- Spec: one request after the other ----------------------------------------
\* The catalogue the cart handlers run against: one ensemble with one track,
\* records with or without that track.
AddToCart(u, r, q) == AddToCartHandler(u, r, q) /\ UNCHANGED histvars
UpdateCart(u, r, q) == UpdateCartHandler(u, r, q) /\ UNCHANGED histvars
RemoveFromCart(u, r) == RemoveFromCartHandler(u, r) /\ UNCHANGED histvars
GetCart(u) == GetCartHandler(u) /\ UNCHANGED histvars
\* The ensembles of the catalogue have different names: "Quartet A" and, when
\* more than one is created, "Quartet 2", "Quartet 3", ...
CatalogueName(n) == IF n = 1 THEN "Quartet A" ELSE "Quartet " \o ToString(n)

AddEnsemble ==
    /\ ensembleSeq < MaxEnsembles
    /\ AddEnsembleHandler(CatalogueName(ensembleSeq + 1), <<ValidTrack>>, "none")
    /\ UNCHANGED histvars
AddRecord(trackIDs) == AddRecordHandler("Live Set", 1, trackIDs, "none") /\ UNCHANGED histvars
DeleteRecord(r) == DeleteRecordHandler(r) /\ UNCHANGED histvars

Next ==
    \/ \E u \in Users, r \in RecordIdInputs, q \in QuantityInputs : AddToCart(u, r, q)
    \/ \E u \in Users, r \in RecordIdInputs, q \in QuantityInputs : UpdateCart(u, r, q)
    \/ \E u \in Users, r \in RecordIdInputs : RemoveFromCart(u, r)
    \/ \E u \in Users : GetCart(u)
    \/ AddEnsemble
    \/ \E ids \in {<<>>, <<1>>} : AddRecord(ids)
    \/ \E r \in ValidRecordIds : DeleteRecord(r)

Spec == Init /\ [][Next]_vars

\* ---- properties of the cart, checked under Spec --------------------------------
CartOps == {"AddToCart", "UpdateCart", "RemoveFromCart", "GetCart"}
OneRow(u, r, q) == {[user_id |-> u, record_id |-> r, quantity |-> q]}

\* C3: in every reachable state every row of cart_items has a quantity of at
\* least 1; no request, valid or invalid, stores a quantity of 0.
C3_QuantityPositive == \A c \in cart_items : c.quantity >= 1

\* A row of quantity 1 that an UpdateCart has just written.
C3_Witness ==
    /\ last.op = "UpdateCart" /\ last.status = StatusOK /\ last.quantity = 1
    /\ Qty(cart_items, last.user, last.record) = 1

\* C4: an AddToCart with a quantity below 1 is answered with the validation
\* error, an AddToCart with a quantity of at least 1 for a (positive) record id
\* without a row in records is answered not-found, and both leave cart_items
\* exactly as it was.
C4_AddRejected ==
    [][last'.op = "AddToCart" =>
         /\ last'.quantity < 1 =>
                last'.status = StatusBadRequest /\ cart_items' = cart_items
         /\ (last'.quantity >= 1 /\ last'.record >= 1
                /\ ~RecordExists(records, last'.record)) =>
                last'.status = StatusNotFound /\ cart_items' = cart_items]_vars

\* A not-found answer to an AddToCart while the cart holds rows: the record of
\* one of them was deleted and the user adds it again.
C4_Witness ==
    /\ last.op = "AddToCart" /\ last.status = StatusNotFound /\ last.quantity >= 1
    /\ RowsOf(cart_items, last.user, last.record) # {}

\* C5: an UpdateCart with a quantity q > 0 on a present row whose record exists
\* succeeds and leaves exactly one row of that pair, with quantity q, whatever
\* the quantity was, and every other row as it was; the same UpdateCart applied
\* again changes nothing.
C5_SetReplaces ==
    [][(/\ last'.op = "UpdateCart" /\ last'.quantity > 0 /\ last'.record >= 1
        /\ RowsOf(cart_items, last'.user, last'.record) # {}
        /\ RecordExists(records, last'.record)) =>
         LET u == last'.user
             r == last'.record
             q == last'.quantity
         IN  /\ last'.status = StatusOK
             /\ cart_items' = DeleteCartItem(cart_items, u, r) \cup OneRow(u, r, q)
             /\ UpdateCartEffect(records', cart_items', u, r, q) = cart_items'
             /\ UpdateCartStatus(records', cart_items', u, r, q) = StatusOK]_vars

\* An UpdateCart with quantity 2 has just succeeded on one of two rows of the
\* cart: the row holds 2 and the other row is still there.
C5_Witness ==
    /\ last.op = "UpdateCart" /\ last.status = StatusOK /\ last.quantity = 2
    /\ Qty(cart_items, last.user, last.record) = 2
    /\ Cardinality(cart_items) = 2

\* C7: an UpdateCart with a quantity q >= 0 for a (positive) record id of which
\* the user has no row is answered not-found and creates no row: cart_items is
\* unchanged.
C7_SetAbsentNotFound ==
    [][(/\ last'.op = "UpdateCart" /\ last'.quantity >= 0 /\ last'.record >= 1
        /\ RowsOf(cart_items, last'.user, last'.record) = {}) =>
         last'.status = StatusNotFound /\ cart_items' = cart_items]_vars

\* A not-found answer to an UpdateCart with a quantity > 0 for an existing
\* record of which the user has no row, while another row is in the cart.
C7_Witness ==
    /\ last.op = "UpdateCart" /\ last.status = StatusNotFound /\ last.quantity > 0
    /\ RecordExists(records, last.record)
    /\ RowsOf(cart_items, last.user, last.record) = {}
    /\ cart_items # {}

\* C8: a RemoveFromCart of a present row deletes that row, whatever its
\* quantity, and succeeds; a RemoveFromCart of a (positive) record id of which
\* the user has no row is answered not-found and leaves cart_items unchanged.
C8_RemoveUnconditional ==
    [][(last'.op = "RemoveFromCart" /\ last'.record >= 1) =>
         IF RowsOf(cart_items, last'.user, last'.record) # {}
         THEN /\ last'.status = StatusOK
              /\ cart_items' = cart_items \ RowsOf(cart_items, last'.user, last'.record)
              /\ RowsOf(cart_items', last'.user, last'.record) = {}
         ELSE last'.status = StatusNotFound /\ cart_items' = cart_items]_vars

\* A RemoveFromCart has just succeeded and left the user's other row in place
\* (the removed row is gone although rows of quantity above 1 exist).
C8_Witness ==
    /\ last.op = "RemoveFromCart" /\ last.status = StatusOK
    /\ RowsOf(cart_items, last.user, last.record) = {}
    /\ \E c \in cart_items : c.user_id = last.user /\ c.quantity > 1

\* C9: a cart request of user u leaves the rows of every other user, and what
\* GetCart answers to every other user, as they were; and the items GetCart
\* answers with are rows of the requesting user only.
C9_OwnRowsOnly ==
    [][last'.op \in CartOps =>
         /\ \A v \in Users \ {last'.user} :
               /\ RowsOfUser(cart_items', v) = RowsOfUser(cart_items, v)
               /\ GetCartResult(records', record_tracks', tracks', cart_items', v)
                    = GetCartResult(records, record_tracks, tracks, cart_items, v)
         /\ last'.op = "GetCart" =>
               \A i \in DOMAIN last'.body : last'.body[i].userId = last'.user]_vars

\* A user has just removed a record from the cart while the other user holds a
\* row for the same record.
C9_Witness ==
    /\ last.op = "RemoveFromCart" /\ last.status = StatusOK
    /\ \E c \in cart_items : c.user_id # last.user /\ c.record_id = last.record

\* C10 (as claimed): when the user has a cart row whose record is no longer in
\* records, GetCart succeeds and answers with exactly the rows whose record
\* exists; the other rows are not part of the answer.
C10_DeletedRecordRowsDropped ==
    (/\ last.op = "GetCart"
     /\ \E c \in RowsOfUser(cart_items, last.user) : ~RecordExists(records, c.record_id)) =>
        /\ last.status = StatusOK
        /\ {last.body[i].recordId : i \in DOMAIN last.body}
             = {c.record_id : c \in {x \in RowsOfUser(cart_items, last.user) :
                                        RecordExists(records, x.record_id)}}

\* ---- SpecSum: the cart handlers with the sum of the added quantities ------------
\* The history variables follow the response of the step just taken.
ObserveSum ==
    LET l == last'
        ok == l.status = StatusOK
        p == <<l.user, l.record>>
    IN  /\ addSum' =
              IF l.op = "AddToCart" /\ ok /\ p \notin mixed
              THEN [addSum EXCEPT ![p] = @ + l.quantity]
              ELSE IF l.op \in {"UpdateCart", "RemoveFromCart"} /\ ok
              THEN [addSum EXCEPT ![p] = 0]
              ELSE IF l.op = "DeleteRecord" /\ ok
              THEN [x \in Pairs |-> IF x[2] = l.record THEN 0 ELSE addSum[x]]
              ELSE addSum
        /\ mixed' =
              IF l.op = "UpdateCart" /\ ok /\ l.quantity > 0 THEN mixed \cup {p}
              ELSE IF l.op \in {"UpdateCart", "RemoveFromCart"} /\ ok THEN mixed \ {p}
              ELSE IF l.op = "DeleteRecord" /\ ok
              THEN mixed \cup {x \in Pairs : x[2] = l.record}
              ELSE mixed
        /\ UNCHANGED <<zeroed, concvars, served>>

AddToCartSum(u, r, q) == AddToCartHandler(u, r, q) /\ ObserveSum
UpdateCartSum(u, r, q) == UpdateCartHandler(u, r, q) /\ ObserveSum
RemoveFromCartSum(u, r) == RemoveFromCartHandler(u, r) /\ ObserveSum
AddRecordSum == AddRecordHandler("Live Set", 1, <<>>, "none") /\ ObserveSum
DeleteRecordSum(r) == DeleteRecordHandler(r) /\ ObserveSum

NextSum ==
    \/ \E u \in Users, r \in ValidRecordIds, q \in QuantityInputs : AddToCartSum(u, r, q)
    \/ \E u \in Users, r \in ValidRecordIds, q \in QuantityInputs : UpdateCartSum(u, r, q)
    \/ \E u \in Users, r \in ValidRecordIds : RemoveFromCartSum(u, r)
    \/ AddRecordSum
    \/ \E r \in ValidRecordIds : DeleteRecordSum(r)

SpecSum == Init /\ [][NextSum]_vars

\* ---- SpecZero: Spec with the pairs an UpdateCart with quantity 0 removed ---------
ObserveZero ==
    LET l == last'
        ok == l.status = StatusOK
        p == <<l.user, l.record>>
    IN  /\ zeroed' =
              IF l.op = "UpdateCart" /\ ok /\ l.quantity = 0 THEN zeroed \cup {p}
              ELSE IF l.op = "AddToCart" /\ ok THEN zeroed \ {p}
              ELSE zeroed
        /\ UNCHANGED <<addSum, mixed, concvars, served>>

AddToCartZero(u, r, q) == AddToCartHandler(u, r, q) /\ ObserveZero
UpdateCartZero(u, r, q) == UpdateCartHandler(u, r, q) /\ ObserveZero
RemoveFromCartZero(u, r) == RemoveFromCartHandler(u, r) /\ ObserveZero
GetCartZero(u) == GetCartHandler(u) /\ ObserveZero
AddEnsembleZero ==
    /\ ensembleSeq < MaxEnsembles
    /\ AddEnsembleHandler(CatalogueName(ensembleSeq + 1), <<ValidTrack>>, "none")
    /\ ObserveZero
AddRecordZero(trackIDs) == AddRecordHandler("Live Set", 1, trackIDs, "none") /\ ObserveZero
DeleteRecordZero(r) == DeleteRecordHandler(r) /\ ObserveZero

NextZero ==
    \/ \E u \in Users, r \in ValidRecordIds, q \in 1 .. (MaxQty - 1) :
          AddToCartZero(u, r, q)
    \/ \E u \in Users, r \in ValidRecordIds, q \in 0 .. (MaxQty - 1) :
          UpdateCartZero(u, r, q)
    \/ \E u \in Users, r \in ValidRecordIds : RemoveFromCartZero(u, r)
    \/ \E u \in Users : GetCartZero(u)
    \/ AddEnsembleZero
    \/ \E ids \in {<<>>, <<1>>} : AddRecordZero(ids)
    \/ \E r \in ValidRecordIds : DeleteRecordZero(r)

SpecZero == Init /\ [][NextZero]_vars

\* C1: for every user and record, as long as only AddToCart calls succeeded on
\* the pair since it last had no row (no UpdateCart, RemoveFromCart or
\* DeleteRecord in between), cart_items holds no row of the pair when nothing
\* was added, and otherwise exactly one row, whose quantity is the sum of the
\* added quantities.
C1_AddAccumulates ==
    \A p \in Pairs \ mixed :
        RowsOf(cart_items, p[1], p[2]) =
            IF addSum[p] = 0 THEN {} ELSE OneRow(p[1], p[2], addSum[p])

\* An AddToCart has just succeeded and brought the sum of the pair to MaxQty,
\* which takes at least two calls (one call adds at most MaxQty - 1).
C1_Witness ==
    /\ last.op = "AddToCart" /\ last.status = StatusOK
    /\ <<last.user, last.record>> \notin mixed
    /\ addSum[<<last.user, last.record>>] = MaxQty
    /\ Qty(cart_items, last.user, last.record) = MaxQty

\* C6: once an UpdateCart with quantity 0 has succeeded on a present row, and
\* until an AddToCart of the same user and record succeeds, the row is gone and
\* no GetCart of that user answers with an item of that record.
C6_SetZeroRemoves ==
    \A p \in zeroed :
        /\ RowsOf(cart_items, p[1], p[2]) = {}
        /\ (last.op = "GetCart" /\ last.user = p[1]) =>
               \A i \in DOMAIN last.body : last.body[i].recordId # p[2]

\* A GetCart answers with the user's remaining item after an UpdateCart with
\* quantity 0 removed the other one.
C6_Witness ==
    /\ last.op = "GetCart" /\ last.status = StatusOK /\ last.body # <<>>
    /\ \E p \in zeroed : p[1] = last.user

\* ---- SpecConc: AddToCart requests that interleave statement by statement --------
\* The AddToCart requests of a pair that passed the existence check and have not
\* run their INSERT yet.
InFlightAdds(p) ==
    {s \in Slots : inflight[s].op = "AddToCart"
                   /\ inflight[s].user = p[1] /\ inflight[s].record = p[2]}

RECURSIVE InFlightQty(_)
\* The quantities of a set of requests in flight, added up.
InFlightQty(S) ==
    IF S = {} THEN 0
    ELSE LET s == CHOOSE x \in S : TRUE
         IN  inflight[s].quantity + InFlightQty(S \ {s})

\* History of a pair whose group of requests is spoilt: nothing is remembered.
Spoil(S) ==
    /\ clean' = clean \ S
    /\ overlapped' = overlapped \ S
    /\ target' = [p \in Pairs |-> IF p \in S THEN 0 ELSE target[p]]

\* AddToCartHandler up to and including the SELECT EXISTS on records: a rejected
\* request is answered at once, any other goes on to its INSERT. The goroutine
\* takes the first free slot.
BeginAddToCart(s, u, r, q) ==
    /\ inflight[s] = Idle
    /\ \A t \in Slots : t < s => inflight[t] # Idle
    /\ Qty(cart_items, u, r) + InFlightQty(InFlightAdds(<<u, r>>)) + q <= MaxQty
    /\ RowsOf(cart_items, u, r) = {} =>
           Cardinality(cart_items) + Cardinality({t \in Slots : inflight[t] # Idle})
               < MaxCartRows
    /\ LET rejected == r <= 0 \/ q <= 0 \/ ~RecordExists(records, r)
           p == <<u, r>>
       IN  IF rejected
           THEN /\ IF InFlightAdds(p) # {} THEN Spoil({p}) ELSE UNCHANGED concvars
                /\ UNCHANGED inflight
           ELSE /\ inflight' = [inflight EXCEPT ![s] =
                                  [op |-> "AddToCart", user |-> u, record |-> r,
                                   quantity |-> q]]
                /\ IF InFlightAdds(p) = {}
                   THEN /\ target' = [target EXCEPT ![p] = Qty(cart_items, u, r) + q]
                        /\ clean' = clean \cup {p}
                        /\ overlapped' = overlapped \ {p}
                   ELSE /\ target' = [target EXCEPT ![p] = IF p \in clean THEN @ + q ELSE 0]
                        /\ overlapped' = IF p \in clean THEN overlapped \cup {p}
                                         ELSE overlapped
                        /\ UNCHANGED clean
    /\ UNCHANGED <<dbvars, openTx, last, addSum, mixed, zeroed, served>>

\* The rest of AddToCartHandler: the INSERT ... ON CONFLICT and the response.
ExecAddToCart(s) ==
    /\ inflight[s].op = "AddToCart"
    /\ LET u == inflight[s].user
           r == inflight[s].record
           q == inflight[s].quantity
           failed == UpsertFails(foreignKeys, records, r)
       IN  /\ cart_items' = IF failed THEN cart_items
                            ELSE UpsertCartItem(cart_items, u, r, q)
           /\ IF failed THEN Spoil({<<u, r>>}) ELSE UNCHANGED concvars
    /\ inflight' = [inflight EXCEPT ![s] = Idle]
    /\ UNCHANGED <<musicians, musicianSeq, openTx, users, foreignKeys, records, recordSeq, ensembles, ensembleSeq, tracks,
                   trackSeq, record_tracks, last, addSum, mixed, zeroed, served>>

\* The single-statement handlers run between the statements of the requests in
\* flight.
RemoveFromCartConc(u, r) ==
    /\ RowsOf(cart_items, u, r) # {}
    /\ cart_items' = RemoveFromCartEffect(cart_items, u, r)
    /\ Spoil({<<u, r>>})
    /\ UNCHANGED <<musicians, musicianSeq, openTx, users, foreignKeys, records, recordSeq, ensembles, ensembleSeq, tracks,
                   trackSeq, record_tracks, inflight, last, addSum, mixed, zeroed, served>>

AddRecordConc ==
    /\ recordSeq < MaxRecords
    /\ records' = records \cup {[id |-> recordSeq + 1, stock |-> 1,
                                 sold_last_year |-> 0, sold_current_year |-> 0]}
    /\ recordSeq' = recordSeq + 1
    /\ UNCHANGED <<musicians, musicianSeq, openTx, users, foreignKeys, ensembles, ensembleSeq, tracks, trackSeq, record_tracks,
                   cart_items, inflight, last, histvars>>

DeleteRecordConc(r) ==
    /\ RecordExists(records, r)
    /\ records' = {x \in records : x.id # r}
    /\ record_tracks' = IF foreignKeys
                        THEN {l \in record_tracks : l.record_id # r}
                        ELSE record_tracks
    /\ cart_items' = IF foreignKeys
                     THEN {c \in cart_items : c.record_id # r}
                     ELSE cart_items
    /\ Spoil({p \in Pairs : p[2] = r})
    /\ UNCHANGED <<musicians, musicianSeq, openTx, users, foreignKeys, recordSeq, ensembles, ensembleSeq, tracks, trackSeq,
                   inflight, last, addSum, mixed, zeroed, served>>

NextConc ==
    \/ \E s \in Slots, u \in Users, r \in ValidRecordIds, q \in 1 .. (MaxQty - 1) :
          BeginAddToCart(s, u, r, q)
    \/ \E s \in Slots : ExecAddToCart(s)
    \/ \E u \in Users, r \in ValidRecordIds : RemoveFromCartConc(u, r)
    \/ AddRecordConc
    \/ \E r \in ValidRecordIds : DeleteRecordConc(r)

SpecConc == Init /\ [][NextConc]_vars

\* C2: when AddToCart requests of one user for one record overlapped, none of
\* them failed, and all of them have returned, the pair has exactly one row and
\* its quantity is the quantity it had before the first of them (0 without a
\* row) plus the sum of all the requested quantities, in whatever order their
\* statements ran.
C2_NoLostUpdate ==
    \A p \in clean \cap overlapped :
        InFlightAdds(p) = {} =>
            RowsOf(cart_items, p[1], p[2]) = OneRow(p[1], p[2], target[p])

\* Overlapping AddToCart requests of one pair have all returned with success
\* and the row holds MaxQty, the quantity before them plus all they asked for.
C2_Witness ==
    \E p \in clean \cap overlapped :
        /\ InFlightAdds(p) = {}
        /\ target[p] = MaxQty
        /\ Qty(cart_items, p[1], p[2]) = MaxQty
\* ---- the middleware of the /api/admin subrouter -----------------------------------
\* What a request presents: no Authorization header, a header that is not
\* "Bearer <token>", a token that jwt.ParseWithClaims rejects, or a valid token
\* whose claims carry the role "user" or "admin".
Credentials == {"missing", "malformed", "invalid", "user", "admin"}

\* JwtAuthentication: the status it writes, StatusOK when it calls next.
JwtAuthenticationStatus(cred) ==
    IF cred \in {"missing", "malformed", "invalid"} THEN StatusUnauthorized ELSE StatusOK

\* Mutant: any authenticated principal passes (the role is not compared).
AdminRequiredStatusAnyRole(cred) ==
    IF cred \notin {"user", "admin"} THEN StatusInternalServerError ELSE StatusOK

\* AdminRequired: userClaims.Role != "admin" is answered 403.
AdminRequiredStatus(cred) ==
    IF cred \notin {"user", "admin"} THEN StatusInternalServerError
    ELSE IF cred # "admin" THEN StatusForbidden
    ELSE StatusOK

\* a.Use(auth.JwtAuthentication); a.Use(auth.AdminRequired)
AdminGate(cred) ==
    IF JwtAuthenticationStatus(cred) # StatusOK THEN JwtAuthenticationStatus(cred)
    ELSE AdminRequiredStatus(cred)

\* A request that a middleware answers: the handler does not run.
Rejected(op, cred) ==
    /\ last' = Response(op, 0, 0, 0, AdminGate(cred), <<>>)
    /\ UNCHANGED <<dbvars, openTx, inflight>>

\* A route of the /api/admin subrouter.
AdminRoute(op, cred, handler) ==
    IF AdminGate(cred) = StatusOK THEN handler ELSE Rejected(op, cred)

\* ---- SpecCatalog: the admin routes, the listings and the reports -------------------
InvalidTrackReq == [name |-> "", duration |-> 120]
SoloTrack == [name |-> "Solo", duration |-> 200]
TrackInputs == {<<>>, <<ValidTrack>>, <<InvalidTrackReq>>}
SoloInputs == {<<>>, <<SoloTrack>>, <<InvalidTrackReq>>}

\* served of a step of SpecCatalog and SpecAdmin: the credential of the request,
\* whether its input fails a validation rule of its handler, and whether the
\* handler got as far as its first db.Begin, db.Query or db.Exec. The other
\* history variables are not used.
Observe(cred, invalid, accessed) ==
    /\ served' = Request(cred, invalid, accessed)
    /\ UNCHANGED <<addSum, mixed, zeroed, concvars>>

HasInvalidTrack(reqTracks) == \E i \in DOMAIN reqTracks : InvalidTrack(reqTracks[i])

AddMusicianCat(cred, first, ensembleID, reqTracks, fail) ==
    /\ AdminRoute("AddMusician", cred,
                  AddMusicianHandler(first, "Lee", ensembleID, reqTracks, fail))
    /\ Observe(cred, first = "" \/ HasInvalidTrack(reqTracks),
               /\ AdminGate(cred) = StatusOK
               /\ AddMusicianOutcome(foreignKeys, ensembles, first, "Lee", ensembleID,
                                     reqTracks, fail) # "invalid")

AddEnsembleCat(cred, name, reqTracks, fail) ==
    /\ AdminRoute("AddEnsemble", cred, AddEnsembleHandler(name, reqTracks, fail))
    /\ served' = [Request(cred, name = "" \/ HasInvalidTrack(reqTracks),
                          /\ AdminGate(cred) = StatusOK
                          /\ AddEnsembleOutcome(ensembles, name, reqTracks, fail) # "invalid")
                     EXCEPT !.name = name]
    /\ UNCHANGED <<addSum, mixed, zeroed, concvars>>

AddRecordCat(cred, title, trackIDs, fail) ==
    /\ AdminRoute("AddRecord", cred, AddRecordHandler(title, 1, trackIDs, fail))
    /\ Observe(cred, title = "",
               /\ AdminGate(cred) = StatusOK
               /\ AddRecordOutcome(tracks, title, 1, trackIDs, fail) # "invalid")

DeleteRecordCat(cred, r) ==
    /\ AdminRoute("DeleteRecord", cred, DeleteRecordHandler(r))
    /\ Observe(cred, r <= 0, AdminGate(cred) = StatusOK /\ r > 0)

GetAllTracksCat(cred) ==
    /\ AdminRoute("GetAllTracks", cred, GetAllTracksHandler)
    /\ Observe(cred, FALSE, AdminGate(cred) = StatusOK)

GetBestSellersCat(cred) ==
    /\ AdminRoute("GetBestSellers", cred, GetBestSellersHandler)
    /\ Observe(cred, FALSE, AdminGate(cred) = StatusOK)

GetRecordsByEnsembleCat(cred, e) ==
    /\ AdminRoute("GetRecordsByEnsemble", cred, GetRecordsByEnsembleHandler(e))
    /\ Observe(cred, e <= 0, AdminGate(cred) = StatusOK /\ e > 0)

\* r.HandleFunc("/api/records", handlers.GetRecordsHandler): no middleware.
GetRecordsCat ==
    /\ GetRecordsHandler
    /\ served' = [Request("missing", FALSE, TRUE) EXCEPT
                     !.queries = GetRecordsQueries(records, record_tracks)]
    /\ UNCHANGED <<addSum, mixed, zeroed, concvars>>

\* A cart route; its JwtAuthentication passed with a token of user 1.
AddToCartCat(r, q) ==
    /\ Qty(cart_items, 1, r) < MaxCatalogQty
    /\ AddToCartHandler(1, r, q)
    /\ Observe("user", r <= 0 \/ q <= 0, r > 0 /\ q > 0)

DeleteMusicianCat(m) ==
    /\ DeleteMusicianStatement(m)
    /\ served' = NoRequest
    /\ UNCHANGED <<addSum, mixed, zeroed, concvars>>

\* Every admin request of SpecCatalog carries an admin token.
NextCatalog ==
    \/ \E first \in {"", "Ann"}, e \in {NullID, 1}, ts \in SoloInputs,
          f \in {"none", "track", "commit"} :
          AddMusicianCat("admin", first, e, ts, f)
    \/ \E name \in {"", "Quartet A"}, ts \in TrackInputs,
          f \in {"none", "insert", "track"} :
          AddEnsembleCat("admin", name, ts, f)
    \/ \E title \in {"", "Live Set"}, ids \in {<<>>, <<1>>, <<1, 2>>},
          f \in {"none", "begin", "prepare", "link"} :
          AddRecordCat("admin", title, ids, f)
    \/ \E r \in RecordIdInputs : DeleteRecordCat("admin", r)
    \/ GetAllTracksCat("admin")
    \/ GetBestSellersCat("admin")
    \/ \E e \in 0 .. (MaxEnsembles + 1) : GetRecordsByEnsembleCat("admin", e)
    \/ GetRecordsCat
    \/ \E r \in RecordIdInputs, q \in {0, 1} : AddToCartCat(r, q)
    \/ \E m \in 1 .. MaxMusicians : DeleteMusicianCat(m)

SpecCatalog == Init /\ [][NextCatalog]_vars

\* ---- SpecAdmin: the /api/admin routes under every credential ------------------------
NextAdmin ==
    \/ \E cred \in Credentials : AddMusicianCat(cred, "Ann", NullID, <<SoloTrack>>, "none")
    \/ \E cred \in Credentials : AddEnsembleCat(cred, "Quartet A", <<ValidTrack>>, "none")
    \/ \E cred \in Credentials, ids \in {<<>>, <<1>>} :
          AddRecordCat(cred, "Live Set", ids, "none")
    \/ \E cred \in Credentials, r \in RecordIdInputs : DeleteRecordCat(cred, r)
    \/ \E cred \in Credentials : GetAllTracksCat(cred)
    \/ \E cred \in Credentials : GetBestSellersCat(cred)
    \/ \E cred \in Credentials, e \in 0 .. (MaxEnsembles + 1) :
          GetRecordsByEnsembleCat(cred, e)

SpecAdmin == Init /\ [][NextAdmin]_vars

\* ---- the claims about the listings, the reports and the admin routes --------------
\* The tracks of trks linked to record r, as the listing is meant to show them.
LinkedTrackViews(r, links, trks, mus, ens) ==
    {TrackView(t, mus, ens) : t \in {x \in trks :
        \E l \in links : l.record_id = r /\ l.track_id = x.id}}

\* The track views a listing answered with for its i-th record.
ListedTracks(body, i) == {body[i].tracks[k] : k \in DOMAIN body[i].tracks}

\* C11 (as claimed): whatever the tables hold, GetRecords succeeds and answers
\* with exactly the records of the table, none dropped, in the order they were
\* fetched, each with a track list.
C11_ListingReturnsEveryRecord ==
    last.op = "GetRecords" =>
        /\ last.status = StatusOK
        /\ Len(last.body) = Cardinality(records)
        /\ \A i \in DOMAIN last.body : last.body[i].id = RowidOrder(records)[i].id

\* C12 (as claimed): in a GetRecords answer the track list of every record holds
\* exactly the existing tracks linked to that record, each with its owner's
\* name; a record "Live Set" linked to the track "Intro" of the ensemble
\* "Quartet A" is listed with that one track and the ensemble name "Quartet A".
C12_TrackListsMatchLinks ==
    (last.op = "GetRecords" /\ record_tracks # {}) =>
        /\ last.status = StatusOK
        /\ \A i \in DOMAIN last.body :
              ListedTracks(last.body, i) =
                  LinkedTrackViews(last.body[i].id, record_tracks, tracks,
                                   musicians, ensembles)

\* A track row or a track view names exactly one owner.
ExactlyOneOwner(musicianID, ensembleID) == (musicianID = NullID) # (ensembleID = NullID)

\* C13: every row of tracks has exactly one of musician_id and ensemble_id, and
\* every track of an answer (the track listing, and the track lists of the
\* record listings and reports) carries exactly one of musicianId and ensembleId.
C13_ExactlyOneOwner ==
    /\ \A t \in tracks : ExactlyOneOwner(t.musician_id, t.ensemble_id)
    /\ (last.op = "GetAllTracks" /\ last.status = StatusOK) =>
           \A i \in DOMAIN last.body :
               ExactlyOneOwner(last.body[i].musicianId, last.body[i].ensembleId)
    /\ (last.op \in {"GetRecords", "GetBestSellers", "GetRecordsByEnsemble"}
          /\ last.status = StatusOK) =>
           \A i \in DOMAIN last.body : \A t \in ListedTracks(last.body, i) :
               ExactlyOneOwner(t.musicianId, t.ensembleId)

\* C13 witness: the track listing answers with a track of a musician who is a
\* member of an ensemble and with a track of an ensemble.
C13_Witness ==
    /\ last.op = "GetAllTracks" /\ last.status = StatusOK
    /\ \E i \in DOMAIN last.body :
          /\ last.body[i].musicianId # NullID
          /\ \E m \in musicians : m.id = last.body[i].musicianId /\ m.ensemble_id # NullID
    /\ \E i \in DOMAIN last.body : last.body[i].ensembleId # NullID

\* C14 (as claimed): a successful DeleteRecord leaves no cart_items row and no
\* record_tracks row of the deleted record, and leaves the tracks table alone.
C14_DeleteRecordRemovesRows ==
    [][(last'.op = "DeleteRecord" /\ last'.status = StatusOK) =>
          /\ \A c \in cart_items' : c.record_id # last'.record
          /\ \A l \in record_tracks' : l.record_id # last'.record
          /\ tracks' = tracks]_vars

\* The tracks owned by musician m.
TracksOfMusician(trks, m) == {t \in trks : t.musician_id = m}

CreateOps == {"AddMusician", "AddEnsemble", "AddRecord"}

\* C16 (as claimed): a create request that does not succeed leaves none of its
\* rows in the tables, and its transaction is committed or rolled back when the
\* request ends.
C16_CreatesAllOrNothing ==
    [][last'.op \in CreateOps =>
          /\ openTx' = openTx
          /\ last'.status # StatusOK =>
                UNCHANGED <<musicians, ensembles, tracks, records, record_tracks>>]_vars

\* C17 (as claimed): the bestsellers report answers with every record, ordered by
\* sold_current_year from the highest down, records with equal counters in the
\* order they were inserted, each with the tracks linked to it.
C17_BestSellersOrdered ==
    last.op = "GetBestSellers" =>
        /\ last.status = StatusOK
        /\ Len(last.body) = Cardinality(records)
        /\ \A i, j \in DOMAIN last.body : i < j =>
              \/ last.body[i].soldCurrentYear > last.body[j].soldCurrentYear
              \/ /\ last.body[i].soldCurrentYear = last.body[j].soldCurrentYear
                 /\ last.body[i].id < last.body[j].id
        /\ \A i \in DOMAIN last.body :
              ListedTracks(last.body, i) =
                  LinkedTrackViews(last.body[i].id, record_tracks, tracks,
                                   musicians, ensembles)

\* The ids of the records with at least one track owned by ensemble e.
RecordsOfEnsemble(links, trks, e) ==
    {l.record_id : l \in {x \in links :
        \E t \in trks : t.id = x.track_id /\ t.ensemble_id = e}}

\* C18 (as claimed): for an ensemble id without a row the ensemble report answers
\* not found; for an existing ensemble it answers with exactly the records that
\* have at least one track owned by the ensemble, each once, each with all the
\* tracks linked to it.
C18_EnsembleReportExact ==
    (last.op = "GetRecordsByEnsemble" /\ last.record > 0) =>
        IF ~(\E e \in ensembles : e.id = last.record)
        THEN last.status = StatusNotFound
        ELSE /\ last.status = StatusOK
             /\ {last.body[i].id : i \in DOMAIN last.body}
                  = RecordsOfEnsemble(record_tracks, tracks, last.record) \cap RecordIDs
             /\ \A i, j \in DOMAIN last.body : last.body[i].id = last.body[j].id => i = j
             /\ \A i \in DOMAIN last.body :
                   ListedTracks(last.body, i) =
                       LinkedTrackViews(last.body[i].id, record_tracks, tracks,
                                        musicians, ensembles)

\* The routes of the /api/admin subrouter that the specifications serve.
AdminOps == {"AddMusician", "AddEnsemble", "AddRecord", "DeleteRecord", "GetAllTracks",
             "GetBestSellers", "GetRecordsByEnsemble"}

\* C19: a request to an admin route whose principal is not an admin (no token,
\* a malformed or invalid token, or the role "user") is answered 401 or 403, its
\* handler does not run, and no table changes.
C19_AdminOnly ==
    [][(last'.op \in AdminOps /\ served'.cred # "admin") =>
          /\ last'.status \in {StatusUnauthorized, StatusForbidden}
          /\ ~served'.accessed
          /\ UNCHANGED <<dbvars, openTx>>]_vars

\* C19 witness: a DeleteRecord of a user who is not an admin was answered 403
\* while the record it named exists.
C19_Witness ==
    /\ last.op = "DeleteRecord" /\ served.cred = "user"
    /\ last.status = StatusForbidden
    /\ Cardinality(records) = MaxRecords

\* C20 (as claimed): a request answered with a validation error did not reach
\* the storage, and an AddMusician or AddEnsemble request with an invalid track
\* (empty name or duration <= 0) is answered with a validation error.
C20_ValidationFirst ==
    /\ last.status = StatusBadRequest => ~served.accessed
    /\ (last.op \in {"AddMusician", "AddEnsemble"} /\ served.invalid) =>
           /\ last.status = StatusBadRequest
           /\ ~served.accessed

\* C21 (as claimed): when a link of a fetched record names a track that the
\* tracks query does not return, GetRecords still succeeds, answers with every
\* record, and each record carries the tracks of its links that were returned.
C21_UnresolvedTrackSkipped ==
    LET fetched == QueryTracks(tracks, {l.track_id : l \in record_tracks}).rows
    IN  (/\ last.op = "GetRecords"
         /\ \E l \in record_tracks :
               RecordExists(records, l.record_id) /\ ~(\E t \in fetched : t.id = l.track_id)) =>
            /\ last.status = StatusOK
            /\ {last.body[i].id : i \in DOMAIN last.body} = RecordIDs
            /\ \A i \in DOMAIN last.body :
                  ListedTracks(last.body, i) =
                      LinkedTrackViews(last.body[i].id, record_tracks, fetched,
                                       musicians, ensembles)

\* The name an answer is meant to show for the owner of a track.
OwnerName(found, name, placeholder) == IF found THEN name ELSE placeholder

C23_BatchedQueries ==
    last.op = "GetRecords" =>
        /\ served.queries <= 3
        /\ records = {} => served.queries = 1

\* C23 witness: a listing of MaxRecords records, each with a link, took 3 queries.
C23_Witness ==
    /\ last.op = "GetRecords"
    /\ Cardinality(records) = MaxRecords
    /\ \A r \in records : \E l \in record_tracks : l.record_id = r.id
    /\ served.queries = 3

\* C24 (as claimed): an AddEnsemble whose name an ensemble already has is answered
\* with a conflict and leaves ensembles and tracks as they are, and no two rows
\* of ensembles have the same name.
C24_DuplicateNameConflict ==
    [][/\ (last'.op = "AddEnsemble" /\ \E e \in ensembles : e.name = served'.name) =>
             /\ last'.status = StatusConflict
             /\ UNCHANGED <<ensembles, tracks>>
       /\ \A a, b \in ensembles' : a.name = b.name => a = b]_vars

\* C26 (as claimed): no handler returns with its transaction open; every
\* transaction begun by AddMusician, AddEnsemble or AddRecord was committed or
\* rolled back when the request was answered.
C26_NoOpenTransaction == openTx = 0

\* ---- SpecRace: an AddToCart and an UpdateCart of one pair, statement by statement ---
\* Each of the two handlers reads records (SELECT EXISTS, SELECT stock) and then
\* writes cart_items with one statement. The AddToCart request runs in slot
\* AdderSlot, the UpdateCart request in slot SetterSlot; a slot keeps its
\* request after the write ("AddDone", "SetDone") until EndRace frees both.
\* overlapped holds the pair when one of the two began while the other was
\* between its statements.
AdderSlot == 1
SetterSlot == 2

\* The pair the slots are working on, when there is one.
RacePairs == {<<inflight[s].user, inflight[s].record>> :
                 s \in {x \in {AdderSlot, SetterSlot} : inflight[x] # Idle}}

\* A row for the race: a sequential AddToCart while both slots are free.
SeedRace(u, r) ==
    /\ RacePairs = {}
    /\ AddToCartHandler(u, r, 1)
    /\ UNCHANGED histvars

\* AddToCartHandler up to its SELECT EXISTS, on a present row of an existing record.
BeginAddRace(u, r, q) ==
    /\ inflight[AdderSlot] = Idle
    /\ RacePairs \subseteq {<<u, r>>}
    /\ RowsOf(cart_items, u, r) # {}
    /\ AddToCartStatus(foreignKeys, records, r, q) = StatusOK
    /\ Qty(cart_items, u, r) + q <= MaxQty
    /\ inflight[SetterSlot].op = "UpdateCart" => inflight[SetterSlot].quantity + q <= MaxQty
    /\ inflight' = [inflight EXCEPT ![AdderSlot] =
                       [op |-> "AddToCart", user |-> u, record |-> r, quantity |-> q]]
    /\ overlapped' = IF inflight[SetterSlot].op = "UpdateCart"
                     THEN overlapped \cup {<<u, r>>} ELSE overlapped
    /\ UNCHANGED <<dbvars, openTx, last, addSum, mixed, zeroed, target, clean, served>>

\* The INSERT ... ON CONFLICT of the request in AdderSlot.
ExecAddRace ==
    /\ inflight[AdderSlot].op = "AddToCart"
    /\ LET a == inflight[AdderSlot]
       IN  cart_items' = UpsertCartItem(cart_items, a.user, a.record, a.quantity)
    /\ inflight' = [inflight EXCEPT ![AdderSlot].op = "AddDone"]
    /\ UNCHANGED <<musicians, musicianSeq, openTx, users, foreignKeys, records, recordSeq,
                   ensembles, ensembleSeq, tracks, trackSeq, record_tracks, last, histvars>>

\* UpdateCartHandler with a quantity > 0 up to its SELECT stock, on a present row
\* of an existing record.
BeginSetRace(u, r, q) ==
    /\ inflight[SetterSlot] = Idle
    /\ RacePairs \subseteq {<<u, r>>}
    /\ RowsOf(cart_items, u, r) # {}
    /\ q > 0
    /\ UpdateCartWrites(records, r, q)
    /\ inflight[AdderSlot].op = "AddToCart" => q + inflight[AdderSlot].quantity <= MaxQty
    /\ inflight' = [inflight EXCEPT ![SetterSlot] =
                       [op |-> "UpdateCart", user |-> u, record |-> r, quantity |-> q]]
    /\ overlapped' = IF inflight[AdderSlot].op = "AddToCart"
                     THEN overlapped \cup {<<u, r>>} ELSE overlapped
    /\ UNCHANGED <<dbvars, openTx, last, addSum, mixed, zeroed, target, clean, served>>

\* The UPDATE cart_items SET quantity = ? of the request in SetterSlot.
ExecSetRace ==
    /\ inflight[SetterSlot].op = "UpdateCart"
    /\ LET b == inflight[SetterSlot]
       IN  cart_items' = UpdateCartItem(cart_items, b.user, b.record, b.quantity)
    /\ inflight' = [inflight EXCEPT ![SetterSlot].op = "SetDone"]
    /\ UNCHANGED <<musicians, musicianSeq, openTx, users, foreignKeys, records, recordSeq,
                   ensembles, ensembleSeq, tracks, trackSeq, record_tracks, last, histvars>>

\* Both requests have returned (or only one was made): the slots are freed.
EndRace ==
    /\ RacePairs # {}
    /\ \A s \in {AdderSlot, SetterSlot} : inflight[s].op \in {"idle", "AddDone", "SetDone"}
    /\ inflight' = [s \in Slots |-> Idle]
    /\ overlapped' = {}
    /\ UNCHANGED <<dbvars, openTx, last, addSum, mixed, zeroed, target, clean, served>>

NextRace ==
    \/ AddRecordConc
    \/ \E u \in Users, r \in ValidRecordIds : SeedRace(u, r)
    \/ \E u \in Users, r \in ValidRecordIds, q \in 1 .. (MaxQty - 1) : BeginAddRace(u, r, q)
    \/ ExecAddRace
    \/ \E u \in Users, r \in ValidRecordIds, q \in 1 .. (MaxQty - 1) : BeginSetRace(u, r, q)
    \/ ExecSetRace
    \/ EndRace

SpecRace == Init /\ [][NextRace]_vars

\* C25: when an AddToCart with quantity q1 and an UpdateCart with quantity
\* q2 > 0 of the same present row have both returned, in whatever order their
\* statements ran, the pair has one row and its quantity is q2 (the add was
\* executed first) or q2 + q1 (the update was executed first).
C25_AddAndSetAtomic ==
    (inflight[AdderSlot].op = "AddDone" /\ inflight[SetterSlot].op = "SetDone") =>
        LET a == inflight[AdderSlot]
            b == inflight[SetterSlot]
        IN  \/ RowsOf(cart_items, a.user, a.record) = OneRow(a.user, a.record, b.quantity)
            \/ RowsOf(cart_items, a.user, a.record) =
                   OneRow(a.user, a.record, b.quantity + a.quantity)

\* C25 witness: the two requests overlapped, both have returned, and the row
\* holds q2 + q1 = MaxQty with q1 # q2.
C25_Witness ==
    /\ inflight[AdderSlot].op = "AddDone" /\ inflight[SetterSlot].op = "SetDone"
    /\ <<inflight[AdderSlot].user, inflight[AdderSlot].record>> \in overlapped
    /\ inflight[AdderSlot].quantity # inflight[SetterSlot].quantity
    /\ Qty(cart_items, inflight[AdderSlot].user, inflight[AdderSlot].record)
         = inflight[AdderSlot].quantity + inflight[SetterSlot].quantity

\* C27 (as claimed): in every reachable state, whatever the interleaving of the
\* statements of AddToCart requests with DeleteRecord, every row of cart_items
\* names a record that has a row in records.
C27_CartRowsReferenceRecords ==
    \A c \in cart_items : RecordExists(records, c.record_id)

\* ---- SpecLinks: AddRecord with lists that repeat ids and name missing tracks ------
\* The lists of track ids of the requests: track 3 never exists (at most one
\* ensemble and one musician are created, with one track each).
LinkInputs == {<<>>, <<1>>, <<1, 2>>, <<1, 3, 1>>, <<2, 2, 3>>}

\* served keeps the list of the request next to what Observe keeps.
AddRecordLinks(title, trackIDs, fail) ==
    /\ AdminRoute("AddRecord", "admin", AddRecordHandler(title, 1, trackIDs, fail))
    /\ served' = [Request("admin", title = "",
                          AddRecordOutcome(tracks, title, 1, trackIDs, fail) # "invalid")
                     EXCEPT !.ids = trackIDs]
    /\ UNCHANGED <<addSum, mixed, zeroed, concvars>>

NextLinks ==
    \/ \E ts \in {<<>>, <<ValidTrack>>} : AddEnsembleCat("admin", "Quartet A", ts, "none")
    \/ \E ts \in {<<>>, <<SoloTrack>>} : AddMusicianCat("admin", "Ann", NullID, ts, "none")
    \/ \E title \in {"", "Live Set"}, ids \in LinkInputs, f \in {"none", "link"} :
          AddRecordLinks(title, ids, f)
    \/ \E r \in RecordIdInputs : DeleteRecordCat("admin", r)

SpecLinks == Init /\ [][NextLinks]_vars

\* The ids of a list that have a row in trks.
ExistingIDs(trks, trackIDs) ==
    {trackIDs[i] : i \in {j \in DOMAIN trackIDs : \E x \in trks : x.id = trackIDs[j]}}

\* C28: a successful AddRecord with the list L of track ids adds to record_tracks
\* exactly one link from the new record to each distinct id of L that has a row
\* in tracks (ids without a row and repetitions are skipped) and nothing else;
\* every link it writes names an existing track.
C28_LinksDistinctExisting ==
    [][(/\ last'.op = "AddRecord"
        /\ last'.status = StatusOK
        /\ recordSeq' = recordSeq + 1)
       => /\ record_tracks' = record_tracks \cup
               {[record_id |-> last'.record, track_id |-> t] :
                    t \in ExistingIDs(tracks, served'.ids)}
          /\ \A l \in record_tracks' \ record_tracks :
                /\ l.record_id = recordSeq'
                /\ \E x \in tracks' : x.id = l.track_id]_vars

\* A record was created from a list that repeats track 1 and names the missing
\* track 3: it has the one link to track 1.
C28_Witness ==
    /\ last.op = "AddRecord"
    /\ last.status = StatusOK
    /\ served.ids = <<1, 3, 1>>
    /\ {l \in record_tracks : l.record_id = last.record}
         = {[record_id |-> last.record, track_id |-> 1]}

\* ---- SpecSales: every operation that writes, with UpdateRecord ----------------------
StockInputs == {-1, 0, MaxStock}

AddRecordSales(title, stock, trackIDs, fail) ==
    AddRecordHandler(title, stock, trackIDs, fail) /\ UNCHANGED histvars
UpdateRecordSales(r, title, stock) ==
    UpdateRecordHandler(r, title, stock) /\ UNCHANGED histvars
AddMusicianSales ==
    AddMusicianHandler("Ann", "Lee", NullID, <<SoloTrack>>, "none") /\ UNCHANGED histvars
AddToCartSales(r, q) ==
    /\ Qty(cart_items, 1, r) < MaxCatalogQty
    /\ AddToCart(1, r, q)

NextSales ==
    \/ \E title \in {"", "Live Set"}, stock \in StockInputs, ids \in {<<>>, <<1>>},
          f \in {"none", "link"} : AddRecordSales(title, stock, ids, f)
    \/ \E r \in 0 .. (MaxRecords + 1), title \in {"", "Live Set"}, stock \in StockInputs :
          UpdateRecordSales(r, title, stock)
    \/ \E r \in ValidRecordIds : DeleteRecord(r)
    \/ AddEnsemble
    \/ AddMusicianSales
    \/ \E r \in RecordIdInputs, q \in {0, 1} : AddToCartSales(r, q)
    \/ \E r \in RecordIdInputs, q \in {0, MaxQty} : UpdateCart(1, r, q)
    \/ \E r \in RecordIdInputs : RemoveFromCart(1, r)
    \/ GetBestSellersHandler /\ UNCHANGED histvars

SpecSales == Init /\ [][NextSales]_vars

\* C29: no operation changes the sales counters: every record is created with
\* sold_last_year = 0 and sold_current_year = 0, and no step, UpdateRecord
\* included, changes either counter of a record that stays.
C29_SalesCountersStayZero ==
    [][/\ \A x \in records' : x.sold_last_year = 0 /\ x.sold_current_year = 0
       /\ \A x \in records, y \in records' :
             x.id = y.id => /\ y.sold_last_year = x.sold_last_year
                            /\ y.sold_current_year = x.sold_current_year]_vars

\* UpdateRecord has just changed the stock of a record.
C29_Witness ==
    /\ last.op = "UpdateRecord"
    /\ last.status = StatusOK
    /\ \E x \in records :
          /\ x.id = last.record
          /\ x.stock = MaxStock
          /\ x.sold_last_year = 0
          /\ x.sold_current_year = 0

\* ---- Server: Register and LoginCheck over the gorm connection -------------------
\* Passwords are byte strings. bcrypt reads the first BcryptMaxBytes bytes of a
\* password; a hash is MinHashSize bytes or longer and starts with '$'.
BcryptMaxBytes == 72
MinHashSize == 60

Truncate(password) ==
    IF Len(password) <= BcryptMaxBytes THEN password
    ELSE SubSeq(password, 1, BcryptMaxBytes)

\* A password of BcryptMaxBytes + 1 bytes ending in c.
LongPassword(c) == [i \in 1 .. (BcryptMaxBytes + 1) |-> IF i > BcryptMaxBytes THEN c ELSE 1]

\* bcrypt.GenerateFromPassword: the hash of the bytes bcrypt reads (the salt
\* does not change what verifies). A build whose bcrypt has
\* ErrPasswordTooLong (rejectsLong) returns that error for a longer password.
GenerateFromPassword(password, rejectsLong) ==
    IF rejectsLong /\ Len(password) > BcryptMaxBytes
    THEN [err |-> "ErrPasswordTooLong", hash |-> <<>>]
    ELSE [err |-> "nil", hash |-> Truncate(password)]

\* strings.TrimSpace of the e-mail addresses of the requests;
\* html.EscapeString leaves them as they are.
TrimSpace(email) == IF email = " a@x" THEN "a@x" ELSE email

\* User.HashPassword: on an error of bcrypt it returns before it assigns
\* anything, so u.Password keeps the password of the request.
HashPassword(u, rejectsLong) ==
    LET h == GenerateFromPassword(u.password.bytes, rejectsLong)
    IN  IF h.err # "nil" THEN u
        ELSE [u EXCEPT !.email = TrimSpace(u.email),
                       !.password = [hashed |-> TRUE, bytes |-> h.hash]]

\* User.VerifyPassword: bcrypt.CompareHashAndPassword on u.Password. A stored
\* value that is not a hash gives ErrHashTooShort or, from MinHashSize bytes
\* on, InvalidHashPrefixError; a hash gives nil or ErrMismatchedHashAndPassword.
VerifyPassword(stored, password) ==
    IF ~stored.hashed
    THEN IF Len(stored.bytes) < MinHashSize THEN "ErrHashTooShort"
         ELSE "InvalidHashPrefixError"
    ELSE IF stored.bytes = Truncate(password) THEN "nil"
    ELSE "ErrMismatchedHashAndPassword"

AdminLogin == "a@x"
AdminPassword == <<1>>

\* Server.Register. A failed ShouldBind writes 400 and the handler goes on; the
\* error of HashPassword is dropped; a failed Create (an e-mail address that
\* has a row: unique) writes 400 and the handler goes on to write 201, which
\* does not replace the status already written.
Register(email, password, rejectsLong) ==
    /\ Cardinality(users) < MaxUsers
    /\ LET bound == email # "" /\ password # <<>>
           role == IF email = AdminLogin /\ password = AdminPassword
                   THEN "admin" ELSE "user"
           user == HashPassword([email |-> email,
                                 password |-> [hashed |-> FALSE, bytes |-> password],
                                 role |-> role], rejectsLong)
           created == ~(\E u \in users : u.email = user.email)
       IN  /\ users' = IF created THEN users \cup {user} ELSE users
           /\ last' = Response("Register", 0, 0, 0,
                               IF bound /\ created THEN StatusCreated
                               ELSE StatusBadRequest, <<>>)
           /\ served' = [Request("missing", ~bound, TRUE) EXCEPT
                            !.email = email, !.password = password]
    /\ UNCHANGED <<foreignKeys, records, recordSeq, ensembles, ensembleSeq, tracks,
                   trackSeq, record_tracks, cart_items, musicians, musicianSeq, openTx,
                   inflight, addSum, mixed, zeroed, concvars>>

\* What Server.LoginCheck returns: the token (here the e-mail address and the
\* role it is generated from) and the error. Only ErrMismatchedHashAndPassword
\* makes it return after VerifyPassword.
LoginCheckResult(usrs, email, password, tokenErr) ==
    IF ~(\E u \in usrs : u.email = email)
    THEN [token |-> <<>>, err |-> "ErrRecordNotFound"]
    ELSE LET user == CHOOSE u \in usrs : u.email = email
             err == VerifyPassword(user.password, password)
         IN  IF err = "ErrMismatchedHashAndPassword" THEN [token |-> <<>>, err |-> err]
             ELSE IF tokenErr THEN [token |-> <<>>, err |-> "token"]
             ELSE [token |-> <<user.email, user.role>>, err |-> "nil"]

\* A call of Server.LoginCheck; tokenErr: utils.GenerateToken returns an error.
LoginCheck(email, password, tokenErr) ==
    /\ LET res == LoginCheckResult(users, email, password, tokenErr)
       IN  last' = Response("LoginCheck", 0, 0, 0, 0, res.token)
    /\ served' = [Request("missing", FALSE, TRUE) EXCEPT
                     !.email = email, !.password = password]
    /\ UNCHANGED <<dbvars, openTx, inflight, addSum, mixed, zeroed, concvars>>

EmailInputs == {"", "a@x", " a@x", "b@x"}
PasswordInputs == {<<>>, <<1>>, <<2>>, LongPassword(1), LongPassword(2)}

NextLogin ==
    \/ \E email \in EmailInputs, password \in PasswordInputs, rejectsLong \in BOOLEAN :
          Register(email, password, rejectsLong)
    \/ \E email \in EmailInputs, password \in PasswordInputs, tokenErr \in BOOLEAN :
          LoginCheck(email, password, tokenErr)

SpecLogin == Init /\ [][NextLogin]_vars

\* C30 (as claimed): Server.LoginCheck returns a token only when users has a
\* row with the e-mail address of the call and the password of the call
\* verifies against the stored password; for every other outcome of
\* VerifyPassword it returns an error and no token.
C30_TokenOnlyWhenVerified ==
    (last.op = "LoginCheck" /\ last.body # <<>>)
    => \E u \in users :
          /\ u.email = served.email
          /\ VerifyPassword(u.password, served.password) = "nil"

====
